---- MODULE Spec2Model ----
(***************************************************************************)
(* Model of urlfinder_llm.py: the batch loop of main(), the response       *)
(* parsing with its repair fallback, the first-match query extraction and  *)
(* the three-engine confidence assessment.                                 *)
(*                                                                         *)
(* Text is modelled at word granularity: a Python str is a sequence of     *)
(* words (joined by single blanks), and the words of the alphabet are      *)
(* chosen so that none is a substring of another.  "needle in s" is then   *)
(* "some word of s is the needle", and str.lower() lowers word by word.    *)
(***************************************************************************)
EXTENDS Integers, Sequences, FiniteSets, TLC

\* ------------------------------------------------------------------ bounds
\* Number of rows of the data file (rendered prompts) in one run.
MaxRecords == 2
\* Number of entries of a top-level JSON object returned by the model.
MaxEntries == 2

\* ------------------------------------------------------- Python values
PyNone == [t |-> "none"]
PyBool(b) == [t |-> "bool", b |-> b]
PyInt(n) == [t |-> "int", n |-> n]
PyStr(s) == [t |-> "str", s |-> s]
PyList(a) == [t |-> "list", a |-> a]
PyDict(e) == [t |-> "dict", e |-> e]

\* isinstance(v, str) / isinstance(v, dict)
IsStr(v) == v.t = "str"
IsDict(v) == v.t = "dict"

\* Python truth value of a parsed JSON value ("if parsed_data:", "if search_query:")
Truthy(v) ==
    CASE v.t = "none" -> FALSE
      [] v.t = "bool" -> v.b
      [] v.t = "int"  -> v.n # 0
      [] v.t = "str"  -> v.s # << >>
      [] v.t = "list" -> v.a # << >>
      [] v.t = "dict" -> v.e # << >>

\* str.lower(), word by word
LowerWord(w) ==
    CASE w = "Reviews" -> "reviews"
      [] w = "Query"   -> "query"
      [] w = "Diebold" -> "diebold"
      [] w = "G2"      -> "g2"
      [] OTHER         -> w

Lower(s) == [i \in 1..Len(s) |-> LowerWord(s[i])]

\* needle in s   (case-sensitive substring test)
Contains(s, needle) == \E i \in 1..Len(s) : s[i] = needle

\* ------------------------------------------------------- input universe
\* Keys and entry values the model may emit in a top-level object.
KeyPool ==
    { <<"company">>, <<"search_term">>, <<"G2", "Reviews", "Query">> }

ValPool ==
    { PyStr(<<"diebold", "g2", "reviews">>),
      PyStr(<<"Diebold", "G2", "Reviews">>),
      PyStr(<<"paccar", "g2", "Query">>),
      PyNone }

Entries == [k : {PyStr(k) : k \in KeyPool}, v : ValPool]

\* A JSON object has no two entries with the same key (json.loads builds a dict).
DistinctKeys(e) == \A i, j \in 1..Len(e) : i # j => e[i].k # e[j].k

Objects ==
    { PyDict(e) : e \in { f \in UNION { [1..m -> Entries] : m \in 0..MaxEntries } :
                            DistinctKeys(f) } }

NonObjects ==
    { PyNone, PyBool(FALSE), PyBool(TRUE), PyInt(0), PyInt(1),
      PyStr(<< >>), PyStr(<<"G2", "Reviews", "Query">>),
      PyList(<< >>), PyList(<<PyStr(<<"paccar", "g2", "Query">>)>>) }

JsonValues == Objects \cup NonObjects

\* A response text.  prefix: the text begins with "OLLAMA_ERROR:"; pad: it
\* has surrounding whitespace; form: "json" (well formed), "broken"
\* (malformed but repairable to val) or "garbage"; val: the value it denotes.
Text(prefix, pad, form, val) ==
    [prefix |-> prefix, pad |-> pad, form |-> form, val |-> val]

NoText == Text(FALSE, FALSE, "none", PyNone)

\* Texts the model may return.  A text that begins with "OLLAMA_ERROR:" is
\* not well-formed JSON and has no leading whitespace.
Responses ==
    { Text(FALSE, p, "json", v) : p \in BOOLEAN, v \in JsonValues }
      \cup { Text(x, FALSE, "broken", v) : x \in BOOLEAN, v \in JsonValues }
      \cup { Text(x, FALSE, "garbage", PyNone) : x \in BOOLEAN }

\* ------------------------------------------------- library conversions
\* str.strip(): drops the surrounding whitespace
Strip(text) == [text EXCEPT !.pad = FALSE]

\* json.loads(text): the value of a well-formed text, JSONDecodeError otherwise.
\* JSON null becomes Python None.
json_loads(text) ==
    IF text.form = "json" THEN [ok |-> TRUE, val |-> text.val]
                          ELSE [ok |-> FALSE, val |-> PyNone]

\* json_repair.repair_json(text): the well-formed text of a repairable input,
\* the empty text (on which json.loads raises) for garbage.
repair_json(text) ==
    CASE text.form = "json"   -> text
      [] text.form = "broken" -> Text(FALSE, FALSE, "json", text.val)
      [] OTHER                -> Text(FALSE, FALSE, "empty", PyNone)

\* The str get_llm_response returns when ollama.chat raised: f"OLLAMA_ERROR: {e}"
ErrorText == Text(TRUE, FALSE, "garbage", PyNone)

\* llm_response_str.startswith("OLLAMA_ERROR:")
StartsWithError(text) == text.prefix

\* ------------------------------------------------------ query extraction
\* "Reviews" in s or "Query" in s
QueryLike(s) == Contains(s, "Reviews") \/ Contains(s, "Query")

\* Mutant of ExtractFrom: the value is tested before the key.
RECURSIVE ExtractFrom_valueFirst(_, _)
ExtractFrom_valueFirst(e, j) ==
    IF j > Len(e) THEN PyNone
    ELSE IF IsStr(e[j].v) /\ QueryLike(e[j].v.s) THEN e[j].v
    ELSE IF IsStr(e[j].k) /\ QueryLike(e[j].k.s) THEN e[j].k
    ELSE ExtractFrom_valueFirst(e, j + 1)

\* Mutant of ExtractFrom: the candidate is normalised to lower case.
RECURSIVE ExtractFrom_lowered(_, _)
ExtractFrom_lowered(e, j) ==
    IF j > Len(e) THEN PyNone
    ELSE IF IsStr(e[j].k) /\ QueryLike(e[j].k.s) THEN PyStr(Lower(e[j].k.s))
    ELSE IF IsStr(e[j].v) /\ QueryLike(e[j].v.s) THEN PyStr(Lower(e[j].v.s))
    ELSE ExtractFrom_lowered(e, j + 1)

\* The for loop over parsed_data.items(), from entry j on: first match wins,
\* the key is tested before the value.
RECURSIVE ExtractFrom(_, _)
ExtractFrom(e, j) ==
    IF j > Len(e) THEN PyNone
    ELSE IF IsStr(e[j].k) /\ QueryLike(e[j].k.s) THEN e[j].k
    ELSE IF IsStr(e[j].v) /\ QueryLike(e[j].v.s) THEN e[j].v
    ELSE ExtractFrom(e, j + 1)

\* search_query after the extraction block of main()
ExtractQuery(v) == IF IsDict(v) THEN ExtractFrom(v.e, 1) ELSE PyNone

\* ------------------------------------------------- search and validation
engines == <<"google", "bing", "duckduckgo">>

\* The stand-in check: fixed substring rules on the lower-cased query.
simulate_search_result(query, engine) ==
    LET q == Lower(query) IN
    CASE engine = "google"     -> Contains(q, "diebold") \/ Contains(q, "paccar")
      [] engine = "bing"       -> Contains(q, "paccar") /\ Contains(q, "g2")
      [] engine = "duckduckgo" -> q = <<"diebold", "g2", "reviews">>
      [] OTHER                 -> FALSE

\* sum(1 for _, found in matches if found)
MatchCount(m) == Cardinality({ j \in 1..Len(m) : m[j][2] })

\* Mutant of Confidence: a two-thirds rule instead of the exact breakpoints.
Confidence_twoThirds(count) ==
    IF count * 3 >= Len(engines) * 2 THEN "HIGH" ELSE
    IF count >= 1 THEN "MEDIUM" ELSE "LOW"

\* Confidence scoring logic
Confidence(count) ==
    IF count = 3 THEN "HIGH"
    ELSE IF count = 2 THEN "MEDIUM"
    ELSE "LOW"

\* The summary string: "(count/3 matches)" and the per-engine breakdown
Summary(count, m) ==
    [count |-> count,
     parts |-> [j \in 1..Len(m) |-> <<m[j][1], IF m[j][2] THEN "MATCH" ELSE "FAIL">>]]

\* create_search_url: the engine's search page with the quoted query
create_search_url(query, engine) ==
    CASE engine = "google"     -> <<"https://www.google.com/search?q=", query>>
      [] engine = "bing"       -> <<"https://www.bing.com/search?q=", query>>
      [] engine = "duckduckgo" -> <<"https://duckduckgo.com/?q=", query>>
      [] OTHER                 -> << >>

\* ------------------------------------------------------------- state
VARIABLES
    pc,                \* position in main()
    data_rows,         \* number of rows load_data_from_csv returned
    rendered_outputs,  \* the prompts rendered so far (prompt k is row k's)
    i,                 \* index of the record the for loop is at (0: none yet)
    llm_response_str,  \* main(): response text of the current record
    parsed_data,       \* main(): parsed value of the current record
    search_query,      \* main(): query candidate of the current record
    matches,           \* assess_confidence(): (engine, is_found) pairs so far
    confidence,        \* assess_confidence(): the tier returned
    summary,           \* assess_confidence(): the summary returned
    printed,           \* what has been printed since the current record's header
    status,            \* history: per record, how far it got / how it ended
    calls,             \* history: per record, number of model invocations
    raised,            \* history: the current record's ollama.chat call raised
    attempts,          \* history: parse attempts made on the current response
    trail,             \* history: pipeline stages the current record went through
    engine_error       \* history: the engine whose check raised ("" if none)

vars == <<pc, data_rows, rendered_outputs, i, llm_response_str, parsed_data,
          search_query, matches, confidence, summary, printed, status, calls,
          raised, attempts, trail, engine_error>>

\* locals of main() and assess_confidence() that belong to one record
locals == <<llm_response_str, parsed_data, search_query, matches, confidence, summary>>
\* history of the current record
ghosts == <<raised, attempts, trail, engine_error>>
\* what merge_template_and_data built
batch == <<data_rows, rendered_outputs>>

NoSummary == [count |-> 0, parts |-> << >>]

Init ==
    /\ pc = "load_data"
    /\ data_rows = 0
    /\ rendered_outputs = << >>
    /\ i = 0
    /\ llm_response_str = NoText
    /\ parsed_data = PyNone
    /\ search_query = PyNone
    /\ matches = << >>
    /\ confidence = ""
    /\ summary = NoSummary
    /\ printed = << >>
    /\ status = << >>
    /\ calls = << >>
    /\ raised = FALSE
    /\ attempts = << >>
    /\ trail = << >>
    /\ engine_error = ""

\* print(...): one more item on standard output
Emit(item) == printed' = Append(printed, item)

\* The record the loop is at ends in terminal state st.
Finish(st) == status' = [status EXCEPT ![i] = st]

\* --------------------------------------------- merge_template_and_data
\* load_data_from_csv: the rows of the data file, or FileNotFoundError, which
\* main() reports ("Error: ...") before it returns.
LoadData ==
    /\ pc = "load_data"
    /\ \/ /\ \E n \in 0..MaxRecords :
                /\ data_rows' = n
                /\ status' = [k \in 1..n |-> "Loaded"]
                /\ calls' = [k \in 1..n |-> 0]
          /\ pc' = "get_template"
          /\ UNCHANGED printed
       \/ /\ pc' = "config_error"
          /\ Emit([k |-> "config_error", what |-> "csv"])
          /\ UNCHANGED <<data_rows, status, calls>>
    /\ UNCHANGED <<rendered_outputs, i, locals, ghosts>>

\* get_template: the template, or FileNotFoundError (TemplateNotFound).
GetTemplate ==
    /\ pc = "get_template"
    /\ \/ /\ pc' = "render"
          /\ UNCHANGED printed
       \/ /\ pc' = "config_error"
          /\ Emit([k |-> "config_error", what |-> "template"])
    /\ UNCHANGED <<batch, i, locals, status, calls, ghosts>>

\* for row_data in data_rows: rendered_outputs.append(template.render(**row_data))
RenderRow ==
    /\ pc = "render"
    /\ Len(rendered_outputs) < data_rows
    /\ rendered_outputs' = Append(rendered_outputs, Len(rendered_outputs) + 1)
    /\ status' = [status EXCEPT ![Len(rendered_outputs) + 1] = "Rendered"]
    /\ UNCHANGED <<pc, data_rows, i, locals, printed, calls, ghosts>>

\* return rendered_outputs
ReturnRendered ==
    /\ pc = "render"
    /\ Len(rendered_outputs) = data_rows
    /\ pc' = "loop"
    /\ UNCHANGED <<batch, i, locals, printed, status, calls, ghosts>>

\* ------------------------------------------------------ main(): the loop
\* for i, prompt in enumerate(rendered_prompts): print the header.  The
\* locals of the previous record are dead here (each is assigned before it
\* is read again), so the model clears them.
NextRecord ==
    /\ pc = "loop"
    /\ i < Len(rendered_outputs)
    /\ i' = i + 1
    /\ printed' = << [k |-> "header", n |-> i + 1] >>
    /\ llm_response_str' = NoText
    /\ parsed_data' = PyNone
    /\ search_query' = PyNone
    /\ matches' = << >>
    /\ confidence' = ""
    /\ summary' = NoSummary
    /\ raised' = FALSE
    /\ attempts' = << >>
    /\ trail' = <<"Rendered">>
    /\ engine_error' = ""
    /\ pc' = "invoke"
    /\ UNCHANGED <<batch, status, calls>>

\* the loop is exhausted: main() returns
EndOfBatch ==
    /\ pc = "loop"
    /\ i = Len(rendered_outputs)
    /\ pc' = "done"
    /\ UNCHANGED <<batch, i, locals, printed, status, calls, ghosts>>

\* get_llm_response(prompt): the text ollama.chat returned, or, when it
\* raised, the string "OLLAMA_ERROR: ..." the except clause builds.
InvokeModel ==
    /\ pc = "invoke"
    /\ \/ \E r \in Responses :
             /\ llm_response_str' = r
             /\ raised' = FALSE
       \/ /\ llm_response_str' = ErrorText
          /\ raised' = TRUE
    /\ calls' = [calls EXCEPT ![i] = @ + 1]
    /\ status' = [status EXCEPT ![i] = "ModelInvoked"]
    /\ trail' = Append(trail, "ModelInvoked")
    /\ pc' = "check_error"
    /\ UNCHANGED <<batch, i, parsed_data, search_query, matches, confidence,
                   summary, printed, attempts, engine_error>>

\* Mutant of ReportError: the "continue" is missing, the record goes on to parse.
ReportError_fallThrough ==
    /\ pc = "check_error"
    /\ StartsWithError(llm_response_str)
    /\ Emit([k |-> "error", text |-> llm_response_str])
    /\ Finish("FailedInvocation")
    /\ trail' = Append(trail, "Failed")
    /\ pc' = "strict"
    /\ UNCHANGED <<batch, i, locals, calls, raised, attempts, engine_error>>

\* Mutant of ReportError: the loop is left ("break") instead of continued.
ReportError_break ==
    /\ pc = "check_error"
    /\ StartsWithError(llm_response_str)
    /\ Emit([k |-> "error", text |-> llm_response_str])
    /\ Finish("FailedInvocation")
    /\ trail' = Append(trail, "Failed")
    /\ pc' = "done"
    /\ UNCHANGED <<batch, i, locals, calls, raised, attempts, engine_error>>

\* if llm_response_str.startswith("OLLAMA_ERROR:"): print it; continue
ReportError ==
    /\ pc = "check_error"
    /\ StartsWithError(llm_response_str)
    /\ Emit([k |-> "error", text |-> llm_response_str])
    /\ Finish("FailedInvocation")
    /\ trail' = Append(trail, "Failed")
    /\ pc' = "loop"
    /\ UNCHANGED <<batch, i, locals, calls, raised, attempts, engine_error>>

\* otherwise: parsed_data = None, and the try block is entered
BeginParse ==
    /\ pc = "check_error"
    /\ ~StartsWithError(llm_response_str)
    /\ parsed_data' = PyNone
    /\ pc' = "strict"
    /\ UNCHANGED <<batch, i, llm_response_str, search_query, matches, confidence,
                   summary, printed, status, calls, ghosts>>

\* Mutant of StrictParse: the repair pass runs whatever the strict parse did.
StrictParse_alwaysRepair ==
    /\ pc = "strict"
    /\ attempts' = Append(attempts, "strict")
    /\ pc' = "repair"
    /\ UNCHANGED <<batch, i, locals, printed, status, calls, raised, trail,
                   engine_error>>

\* try: parsed_data = json.loads(llm_response_str.strip())
\* except json.JSONDecodeError: go to the repair fallback
StrictParse ==
    /\ pc = "strict"
    /\ attempts' = Append(attempts, "strict")
    /\ LET r == json_loads(Strip(llm_response_str)) IN
       IF r.ok
       THEN /\ parsed_data' = r.val
            /\ status' = [status EXCEPT ![i] = "Parsed"]
            /\ trail' = Append(trail, "Parsed")
            /\ pc' = "truthy"
       ELSE /\ pc' = "repair"
            /\ UNCHANGED <<parsed_data, status, trail>>
    /\ UNCHANGED <<batch, i, llm_response_str, search_query, matches, confidence,
                   summary, printed, calls, raised, engine_error>>

\* try: parsed_data = json.loads(repair_json(llm_response_str.strip()))
\* except Exception: print "CRITICAL ERROR ... Raw output" ; parsed_data = None
RepairParse ==
    /\ pc = "repair"
    /\ attempts' = Append(attempts, "repair")
    /\ LET r == json_loads(repair_json(Strip(llm_response_str))) IN
       IF r.ok
       THEN /\ parsed_data' = r.val
            /\ status' = [status EXCEPT ![i] = "Parsed"]
            /\ trail' = Append(trail, "Parsed")
            /\ UNCHANGED printed
       ELSE /\ Emit([k |-> "critical", raw |-> Strip(llm_response_str)])
            /\ parsed_data' = PyNone
            /\ Finish("FailedParse")
            /\ trail' = Append(trail, "Failed")
    /\ pc' = "truthy"
    /\ UNCHANGED <<batch, i, llm_response_str, search_query, matches, confidence,
                   summary, calls, raised, engine_error>>

\* if parsed_data: search_query = None ...   A falsy parsed_data (the None of
\* a failed parse, but also {}, [], null, false, 0, "") skips the rest of the
\* iteration without printing anything.
CheckParsed ==
    /\ pc = "truthy"
    /\ IF Truthy(parsed_data)
       THEN /\ search_query' = PyNone
            /\ pc' = "extract"
            /\ UNCHANGED <<status, trail>>
       ELSE /\ pc' = "loop"
            /\ IF status[i] = "FailedParse"
               THEN UNCHANGED <<status, trail>>
               ELSE /\ Finish("Skipped")
                    /\ trail' = Append(trail, "Skipped")
            /\ UNCHANGED search_query
    /\ UNCHANGED <<batch, i, llm_response_str, parsed_data, matches, confidence,
                   summary, printed, calls, raised, attempts, engine_error>>

\* the extraction block: isinstance(parsed_data, dict) and the for loop
Extract ==
    /\ pc = "extract"
    /\ search_query' = ExtractQuery(parsed_data)
    /\ pc' = "check_query"
    /\ UNCHANGED <<batch, i, llm_response_str, parsed_data, matches, confidence,
                   summary, printed, status, calls, ghosts>>

\* if search_query: print it and call assess_confidence (engines, matches = [])
\* else: print "Could not reliably extract the query. Data received: ..."
CheckQuery ==
    /\ pc = "check_query"
    /\ IF Truthy(search_query)
       THEN /\ Emit([k |-> "query", q |-> search_query])
            /\ status' = [status EXCEPT ![i] = "Extracted"]
            /\ trail' = Append(trail, "Extracted")
            /\ matches' = << >>
            /\ pc' = "assess"
       ELSE /\ Emit([k |-> "miss", data |-> parsed_data])
            /\ Finish("FailedExtraction")
            /\ trail' = Append(trail, "Failed")
            /\ pc' = "loop"
            /\ UNCHANGED matches
    /\ UNCHANGED <<batch, i, llm_response_str, parsed_data, search_query,
                   confidence, summary, calls, raised, attempts, engine_error>>

\* One more (engine, is_found) pair; the last one completes the validation.
Record(engine, is_found) ==
    /\ matches' = Append(matches, <<engine, is_found>>)
    /\ IF Len(matches) + 1 = Len(engines)
       THEN /\ status' = [status EXCEPT ![i] = "Validated"]
            /\ trail' = Append(trail, "Validated")
       ELSE UNCHANGED <<status, trail>>

\* Mutant of CheckEngine: the loop stops at the first engine that matched.
CheckEngine_shortCircuit ==
    /\ pc = "assess"
    /\ Len(matches) < Len(engines)
    /\ LET engine == engines[Len(matches) + 1]
           is_found == simulate_search_result(search_query.s, engine) IN
       IF is_found
       THEN /\ matches' = Append(matches, <<engine, is_found>>)
            /\ status' = [status EXCEPT ![i] = "Validated"]
            /\ trail' = Append(trail, "Validated")
            /\ pc' = "score"
       ELSE /\ Record(engine, is_found)
            /\ pc' = IF Len(matches) + 1 = Len(engines) THEN "score" ELSE "assess"
    /\ UNCHANGED <<batch, i, llm_response_str, parsed_data, search_query,
                   confidence, summary, printed, calls, raised, attempts,
                   engine_error>>

\* for engine in engines: is_found = simulate_search_result(query, engine);
\* matches.append((engine, is_found))          -- one iteration, stand-in check
CheckEngine ==
    /\ pc = "assess"
    /\ Len(matches) < Len(engines)
    /\ LET engine == engines[Len(matches) + 1] IN
       Record(engine, simulate_search_result(search_query.s, engine))
    /\ pc' = IF Len(matches) + 1 = Len(engines) THEN "score" ELSE "assess"
    /\ UNCHANGED <<batch, i, llm_response_str, parsed_data, search_query,
                   confidence, summary, printed, calls, raised, attempts,
                   engine_error>>

\* The same iteration with the stand-in replaced by a real search client, as
\* its docstring requires: the check answers true or false, or it raises.
\* Nothing in assess_confidence or in the loop body catches the exception, so
\* it reaches main()'s "except Exception", which prints "An unexpected error
\* occurred" and ends the run.
CheckEngineLive ==
    /\ pc = "assess"
    /\ Len(matches) < Len(engines)
    /\ LET engine == engines[Len(matches) + 1] IN
       \/ /\ \E is_found \in BOOLEAN : Record(engine, is_found)
          /\ pc' = IF Len(matches) + 1 = Len(engines) THEN "score" ELSE "assess"
          /\ UNCHANGED <<printed, engine_error>>
       \/ /\ engine_error' = engine
          /\ Emit([k |-> "unexpected", engine |-> engine])
          /\ pc' = "unexpected_error"
          /\ UNCHANGED <<matches, status, trail>>
    /\ UNCHANGED <<batch, i, llm_response_str, parsed_data, search_query,
                   confidence, summary, calls, raised, attempts>>

\* match_count, the tier and the summary; return confidence, summary
Score ==
    /\ pc = "score"
    /\ LET match_count == MatchCount(matches) IN
       /\ confidence' = Confidence(match_count)
       /\ summary' = Summary(match_count, matches)
    /\ status' = [status EXCEPT ![i] = "Scored"]
    /\ trail' = Append(trail, "Scored")
    /\ pc' = "report"
    /\ UNCHANGED <<batch, i, llm_response_str, parsed_data, search_query,
                   matches, printed, calls, raised, attempts, engine_error>>

\* print the tier, the summary and the three verification links
Report ==
    /\ pc = "report"
    /\ printed' = printed \o
         << [k |-> "confidence", tier |-> confidence],
            [k |-> "summary", text |-> summary],
            [k |-> "links",
             urls |-> << create_search_url(search_query.s, "google"),
                         create_search_url(search_query.s, "bing"),
                         create_search_url(search_query.s, "duckduckgo") >>] >>
    /\ Finish("Reported")
    /\ trail' = Append(trail, "Reported")
    /\ pc' = "loop"
    /\ UNCHANGED <<batch, i, locals, calls, raised, attempts, engine_error>>

\* ---------------------------------------------------------- specifications
\* Steps every run shares.
Pipeline ==
    \/ LoadData \/ GetTemplate \/ RenderRow \/ ReturnRendered
    \/ NextRecord \/ EndOfBatch \/ InvokeModel \/ ReportError \/ BeginParse
    \/ StrictParse \/ RepairParse \/ CheckParsed \/ Extract \/ CheckQuery
    \/ Score \/ Report

\* The program as written: the engines are checked by the stand-in.
Next == Pipeline \/ CheckEngine

Spec == Init /\ [][Next]_vars

\* The program with the stand-in replaced by a search client.
NextLive == Pipeline \/ CheckEngineLive

SpecLive == Init /\ [][NextLive]_vars

\* ------------------------------------------------------------- properties
Terminal == {"Reported", "FailedInvocation", "FailedParse", "FailedExtraction", "Skipped"}
Failed == {"FailedInvocation", "FailedParse", "FailedExtraction", "Skipped"}
Ended == {"done", "config_error", "unexpected_error"}

C2_EveryRecordEndsClassifiedAndReported ==
    (pc = "loop" /\ i >= 1) =>
        /\ status[i] \in {"Reported", "FailedInvocation", "FailedParse", "FailedExtraction"}
        /\ Len(printed) > 1
        /\ (\E j \in 1..Len(trail) : trail[j] = "Parsed") /\ ~Truthy(ExtractQuery(parsed_data))
             => /\ status[i] = "FailedExtraction"
                /\ printed[Len(printed)] = [k |-> "miss", data |-> parsed_data]

\* First-match scan, stated declaratively: the least entry whose key or
\* string value is query-like decides; its key if the key is query-like,
\* its value otherwise.
KeyHit(e, j) == IsStr(e[j].k) /\ QueryLike(e[j].k.s)
ValHit(e, j) == IsStr(e[j].v) /\ QueryLike(e[j].v.s)
FirstMatch(v) ==
    IF ~IsDict(v) THEN PyNone
    ELSE LET hits == { j \in 1..Len(v.e) : KeyHit(v.e, j) \/ ValHit(v.e, j) } IN
         IF hits = {} THEN PyNone
         ELSE LET j == CHOOSE x \in hits : \A y \in hits : x <= y IN
              IF KeyHit(v.e, j) THEN v.e[j].k ELSE v.e[j].v

AfterExtract == {"check_query", "assess", "score", "report"}

\* C3: once the extraction block has run, the candidate is the result of the
\* first-match scan of the parsed value: "not found" for a non-object, else
\* the key of the first entry with a query-like key or value if that key is
\* query-like, else that entry's value; the match is case-sensitive.
C3_ExtractionIsFirstMatchScan ==
    pc \in AfterExtract =>
        /\ search_query = FirstMatch(parsed_data)
        /\ ~IsDict(parsed_data) => search_query = PyNone
        /\ parsed_data = PyDict(<<[k |-> PyStr(<<"G2", "Reviews", "Query">>),
                                   v |-> PyStr(<<"diebold", "g2", "reviews">>)]>>)
             => search_query = PyStr(<<"G2", "Reviews", "Query">>)
        /\ search_query # PyStr(<<"diebold", "g2", "reviews">>)

\* C3 witness: the first entry has no query-like key or value, the second is
\* taken by its value.
C3_Witness ==
    /\ pc = "check_query"
    /\ IsDict(parsed_data)
    /\ Len(parsed_data.e) = 2
    /\ ~KeyHit(parsed_data.e, 1) /\ ~ValHit(parsed_data.e, 1)
    /\ ~KeyHit(parsed_data.e, 2)
    /\ search_query = parsed_data.e[2].v

\* the engines whose check returned true
Matched == { e \in {engines[j] : j \in 1..Len(engines)} :
               \E j \in 1..Len(matches) : matches[j] = <<e, TRUE>> }

\* C4: when assess_confidence has returned, the tier is HIGH exactly when
\* three engines matched, MEDIUM exactly when two did, LOW when one or none
\* did, and the count it reports is that number, within 0..3.
C4_TierFollowsMatchCount ==
    pc = "report" =>
        LET c == Cardinality(Matched) IN
        /\ summary.count = c
        /\ c \in 0..3
        /\ confidence = "HIGH" <=> c = 3
        /\ confidence = "MEDIUM" <=> c = 2
        /\ confidence = "LOW" <=> c \in {0, 1}

\* C4 witness: all three engines matched and the tier returned is HIGH.
C4_Witness ==
    /\ pc = "report"
    /\ Cardinality(Matched) = 3
    /\ confidence = "HIGH"

\* C5: the pairs recorded so far are those of the first engines of the
\* configured order, one each; when the loop is over there is exactly one
\* pair per engine, also when an earlier engine matched, and the breakdown
\* of the summary lists the engines in that order.
C5_EveryEngineCheckedOnceInOrder ==
    /\ Len(matches) <= Len(engines)
    /\ \A j \in 1..Len(matches) : matches[j][1] = engines[j]
    /\ pc \in {"score", "report"} => Len(matches) = Len(engines)
    /\ pc = "report" =>
         /\ Len(summary.parts) = Len(engines)
         /\ \A j \in 1..Len(engines) :
               summary.parts[j] = <<engines[j], IF matches[j][2] THEN "MATCH" ELSE "FAIL">>

\* C5 witness: the first engine matched, and the two after it were checked.
C5_Witness ==
    /\ pc = "report"
    /\ matches[1][2]
    /\ Len(matches) = 3
    /\ summary.parts[3][1] = "duckduckgo"

\* C6: an engine check that fails with an error is recorded as a non-match
\* and validation goes on: the run does not end on it.
C6_EngineErrorIsIsolated ==
    engine_error # "" =>
        /\ pc # "unexpected_error"
        /\ \E j \in 1..Len(matches) : matches[j] = <<engine_error, FALSE>>

\* C7: the parse attempts on one response are the strict parse, then at most
\* one repair pass, the repair only after the strict parse of the trimmed
\* text failed; the model is not called again for the record; and when both
\* attempts failed the record is a parse failure printed with the raw text.
C7_RepairOnlyAfterStrictFailure ==
    /\ attempts \in {<< >>, <<"strict">>, <<"strict", "repair">>}
    /\ (\E j \in 1..Len(attempts) : attempts[j] = "repair") =>
          ~json_loads(Strip(llm_response_str)).ok
    /\ (pc = "truthy" /\ attempts = <<"strict">>) =>
          json_loads(Strip(llm_response_str)).ok
    /\ i >= 1 => calls[i] <= 1
    /\ (attempts = <<"strict", "repair">>
          /\ ~json_loads(repair_json(Strip(llm_response_str))).ok) =>
          /\ status[i] = "FailedParse"
          /\ printed[Len(printed)] = [k |-> "critical", raw |-> Strip(llm_response_str)]
          /\ parsed_data = PyNone

\* C7 witness: both attempts were made and failed.
C7_Witness ==
    /\ attempts = <<"strict", "repair">>
    /\ i >= 1
    /\ status[i] = "FailedParse"
    /\ pc = "loop"

\* the order of the stages of one record
Stages == <<"Rendered", "ModelInvoked", "Parsed", "Extracted", "Validated", "Scored", "Reported">>

IsPrefix(s, t) == Len(s) <= Len(t) /\ \A j \in 1..Len(s) : s[j] = t[j]

\* The stages a record went through are an initial part of the order,
\* possibly followed by one ending: Failed, or the silent skip.
InOrder(t) ==
    \/ IsPrefix(t, Stages)
    \/ /\ Len(t) >= 1
       /\ t[Len(t)] \in {"Failed", "Skipped"}
       /\ IsPrefix(SubSeq(t, 1, Len(t) - 1), Stages)

\* C8 as stated: no step of record k+1, the rendering of its prompt
\* included, begins before record k has reached a terminal state, and the
\* stages of one record occur in the order of the state machine.
C8_OneRecordAtATime ==
    /\ \A k \in 1..(Len(status) - 1) :
          status[k + 1] # "Loaded" => status[k] \in Terminal
    /\ InOrder(trail)

\* C8 amended: all prompts are rendered before the first model call; from
\* the model call on, no step of record k+1 begins before record k has
\* reached the end of its iteration, and the stages of one record occur in
\* the order of the state machine.
C8_OneRecordAtATimeAfterRendering ==
    /\ \A k \in 1..(Len(status) - 1) :
          status[k + 1] \notin {"Loaded", "Rendered"} => status[k] \in Terminal
    /\ (\E k \in 1..Len(calls) : calls[k] > 0) =>
          \A k \in 1..Len(status) : status[k] # "Loaded"
    /\ \A k \in 1..Len(status) : (k > i => status[k] \in {"Loaded", "Rendered"})
    /\ InOrder(trail)

\* C8 witness: the second record is past its model call and the first one
\* has ended.
C8_Witness ==
    /\ i = 2
    /\ status[1] \in Terminal
    /\ status[2] = "Scored"
    /\ trail = SubSeq(Stages, 1, 6)

\* C9: the candidate is absent, or a non-empty string that is a key or a
\* string value of the top-level parsed object; validation and scoring run
\* on a non-empty candidate only.
C9_CandidateIsVerbatimAndNonEmpty ==
    /\ \/ search_query = PyNone
       \/ /\ IsStr(search_query)
          /\ search_query.s # << >>
          /\ IsDict(parsed_data)
          /\ \E j \in 1..Len(parsed_data.e) :
                parsed_data.e[j].k = search_query \/ parsed_data.e[j].v = search_query
    /\ pc \in {"assess", "score", "report"} =>
          IsStr(search_query) /\ search_query.s # << >>

\* C9 witness: validation runs on a candidate taken from a value of the object.
C9_Witness ==
    /\ pc = "assess"
    /\ search_query = PyStr(<<"paccar", "g2", "Query">>)
    /\ \E j \in 1..Len(parsed_data.e) : parsed_data.e[j].v = search_query

\* C10: a record is Failed(model-invocation error) if and only if its model
\* call raised; a call that returned a response goes on to the parse step,
\* and a record whose call raised is never parsed.
C10_InvocationFailureIffCallRaised ==
    (i >= 1 /\ pc \notin {"invoke", "check_error"}) =>
        /\ status[i] = "FailedInvocation" <=> raised
        /\ raised => attempts = << >>
        /\ ~raised => (pc = "strict" \/ attempts # << >>)

====
